---- MODULE Spec2Model ----
(***************************************************************************)
(* Model of backend/main.py, the resume analyser service: the four vector  *)
(* store collections (job_descriptions, resumes, user_job_descriptions,    *)
(* analysis_results), the PDF files under ./uploads/resumes, and the HTTP  *)
(* handlers that upload, rank, match, serve cached results and delete.     *)
(*                                                                         *)
(* Embeddings are integer vectors of the plane with integral norms, so     *)
(* that cosine similarity is an exact number of hundredths. A uuid4 is a   *)
(* number never issued before; the vector store scrolls a collection in    *)
(* ascending id order.                                                     *)
(***************************************************************************)
EXTENDS Integers, Sequences, FiniteSets, TLC

VARIABLES jobs, resumes, files, saved, analysis, issued, clock, groq, resp,
          pending

vars == <<jobs, resumes, files, saved, analysis, issued, clock, groq, resp,
          pending>>

(***************************************************************************)
(* Bounds of the model.                                                    *)
(***************************************************************************)
MaxJobs == 1
MaxResumes == 5
MaxSaved == 4
MaxBatch == 2
MaxAdhoc == 5
MaxClock == 1
MaxUserResumes == 1
StoreResumes == 2
PersistResumes == 2
CascadeResumes == 5
DeleteResumes == 3
ArchiveSnapshots == 2
RaceResumes == 3
ArchiveObjects == 3
CacheRankings == 11

(***************************************************************************)
(* Configuration (environment variables) and literals of the handlers.     *)
(* Scores are hundredths: 60 is 0.6.                                       *)
(***************************************************************************)
EXPLANATION_THRESHOLD == 60
MAX_SCALE == 4
LatestScanLimit == 10
SavedScanLimit == 100
PdfContentType == "application/pdf"

\* Python's None: as an explanation, and as an id (ids start at 1)
None == "None"
NoId == 0

JobIds == 1..MaxJobs

(***************************************************************************)
(* Texts and their embeddings. embedding_model.encode is a pure function   *)
(* of the text; the empty string stands for a missing form field.          *)
(***************************************************************************)
Texts == {"go", "js", "py", "ml"}

Embed(text) ==
    CASE text = "go" -> <<1, 0>>
      [] text = "js" -> <<4, 3>>
      [] text = "py" -> <<3, 4>>
      [] OTHER       -> <<0, 1>>

Dot(a, b) == a[1] * b[1] + a[2] * b[2]

Norm(a) == CHOOSE n \in 0..5 : n * n = Dot(a, a)

\* cos_sim / cosine_similarity / the store's COSINE distance, in hundredths
CosSim(a, b) == (100 * Dot(a, b)) \div (Norm(a) * Norm(b))

Min(a, b) == IF a < b THEN a ELSE b

RECURSIVE SortedIds(_)
\* The ids of a set in ascending order: the order a scroll returns points in.
SortedIds(S) ==
    IF S = {} THEN <<>>
    ELSE LET m == CHOOSE x \in S : \A y \in S : x <= y
         IN <<m>> \o SortedIds(S \ {m})

Take(s, n) == SubSeq(s, 1, Min(n, Len(s)))

\* qdrant_client.scroll(collection, filter, limit): the first limit ids
Scroll(S, limit) == Take(SortedIds(S), limit)


(***************************************************************************)
(* Uploaded files. The bytes of a file are named by what the extractor     *)
(* makes of them: "" is a zero-byte file, CorruptPdf makes                 *)
(* pypdf.PdfReader raise, ScannedPdf has pages without text, and any other *)
(* content is a PDF whose pages yield that text.                           *)
(***************************************************************************)
CorruptPdf == "%corrupt"
ScannedPdf == "%scanned"

File(ct, bytes) == [content_type |-> ct, bytes |-> bytes]

\* _pdf_to_text: whether PdfReader(...) raises, which no handler catches
PdfRaises(pdf_bytes) == pdf_bytes = CorruptPdf

\* _pdf_to_text: the joined page texts (whitespace only for a scanned PDF)
PdfToText(pdf_bytes) == IF pdf_bytes = ScannedPdf THEN " " ELSE pdf_bytes

Strip_Nothing(text) == text

\* str.strip
Strip(text) == IF text = " " THEN "" ELSE text

(***************************************************************************)
(* Responses. Every handler leaves the response of the request in resp.    *)
(***************************************************************************)
NoResp == [op |-> "none", status |-> 0]

Init ==
    /\ jobs = <<>>
    /\ resumes = <<>>
    /\ files = {}
    /\ saved = <<>>
    /\ analysis = <<>>
    /\ issued = [job |-> 0, resume |-> 0, saved |-> 0]
    /\ clock = 0
    /\ groq \in BOOLEAN
    /\ resp = NoResp
    /\ pending = <<>>

(***************************************************************************)
(* POST /api/hr/jobs                                                       *)
(***************************************************************************)
CreateJob(name, description) ==
    IF name = "" \/ description = ""
    THEN /\ resp' = [op |-> "create_job", status |-> 400]
         /\ UNCHANGED <<jobs, resumes, files, saved, analysis, issued, clock, groq, pending>>
    ELSE /\ LET job_id == issued.job + 1
            IN /\ jobs' = (job_id :> [description_text |-> description]) @@ jobs
               /\ issued' = [issued EXCEPT !.job = job_id]
               /\ resp' = [op |-> "create_job", status |-> 200, job_id |-> job_id]
         /\ UNCHANGED <<resumes, files, saved, analysis, clock, groq, pending>>

(***************************************************************************)
(* POST /api/hr/jobs/{job_id}/resumes                                      *)
(* The loop body over one file, on the handler's world w: the resumes      *)
(* collection, the files, the last id issued, the accepted resumes and     *)
(* the status (200 while the loop runs, 500 once a call has raised).       *)
(***************************************************************************)
StoreResume(w, rid, payload, upsertRaises) ==
    \* open(pdf_path, "wb").write(pdf_bytes), then qdrant_client.upsert
    IF upsertRaises
    THEN [w EXCEPT !.files = @ \cup {rid}, !.next = rid, !.status = 500]
    ELSE [w EXCEPT !.files = @ \cup {rid}, !.next = rid,
                   !.resumes = (rid :> payload) @@ @,
                   !.uploaded = Append(@, rid)]

UploadOne(w, job_id, file, upsertRaises) ==
    IF w.status # 200 THEN w
    ELSE IF file.content_type # PdfContentType THEN w
    ELSE IF file.bytes = "" THEN w
    ELSE IF PdfRaises(file.bytes) THEN [w EXCEPT !.status = 500]
    ELSE IF Strip(PdfToText(file.bytes)) = "" THEN w
    ELSE StoreResume(w, w.next + 1,
                     [job_id |-> job_id, user_uploaded |-> FALSE,
                      text |-> PdfToText(file.bytes)],
                     upsertRaises)

RECURSIVE UploadLoop(_, _, _, _, _)
\* for file in files: ..., the upsert of file number failAt raising (0: none)
UploadLoop(w, job_id, fs, i, failAt) ==
    IF i > Len(fs) THEN w
    ELSE UploadLoop(UploadOne(w, job_id, fs[i], i = failAt), job_id, fs, i + 1, failAt)

World == [resumes |-> resumes, files |-> files, next |-> issued.resume,
          uploaded |-> <<>>, status |-> 200]

UploadResumesForJob(job_id, fs, retrieveRaises, failAt) ==
    IF retrieveRaises
    THEN /\ resp' = [op |-> "upload_resumes_for_job", status |-> 404,
                     job_id |-> job_id, files |-> fs]
         /\ UNCHANGED <<jobs, resumes, files, saved, analysis, issued, clock, groq, pending>>
    ELSE LET w == UploadLoop(World, job_id, fs, 1, failAt)
         IN /\ resumes' = w.resumes
            /\ files' = w.files
            /\ issued' = [issued EXCEPT !.resume = w.next]
            /\ resp' = IF w.status = 200
                       THEN [op |-> "upload_resumes_for_job", status |-> 200,
                             job_id |-> job_id, files |-> fs,
                             uploaded |-> Len(w.uploaded), resumes |-> w.uploaded]
                       ELSE [op |-> "upload_resumes_for_job", status |-> w.status,
                             job_id |-> job_id, files |-> fs]
            /\ UNCHANGED <<jobs, saved, analysis, clock, groq, pending>>

(***************************************************************************)
(* upload_resumes_for_job as the event loop runs it. The handler is a      *)
(* coroutine that yields at each `await file.read()`, and other requests   *)
(* run while it waits; between two awaits it runs alone. pending holds the *)
(* request that waits for a read: its job, its files, the file being read  *)
(* and the resumes accepted so far.                                        *)
(***************************************************************************)
RECURSIVE NextRead(_, _)
\* The next file at or after i that is read (a file that is no PDF is
\* skipped without an await); Len(fs) + 1 when there is none.
NextRead(fs, i) ==
    IF i > Len(fs) \/ fs[i].content_type = PdfContentType THEN i
    ELSE NextRead(fs, i + 1)

\* The request runs from its start to its first await.
UploadBegin(job_id, fs, retrieveRaises) ==
    /\ pending = <<>>
    /\ IF retrieveRaises
       THEN /\ resp' = [op |-> "upload_resumes_for_job", status |-> 404,
                        job_id |-> job_id, files |-> fs]
            /\ UNCHANGED pending
       ELSE IF NextRead(fs, 1) > Len(fs)
       THEN /\ resp' = [op |-> "upload_resumes_for_job", status |-> 200,
                        job_id |-> job_id, files |-> fs,
                        uploaded |-> 0, resumes |-> <<>>]
            /\ UNCHANGED pending
       ELSE /\ pending' = <<[job_id |-> job_id, files |-> fs,
                             i |-> NextRead(fs, 1), uploaded |-> <<>>]>>
            /\ UNCHANGED resp
    /\ UNCHANGED <<jobs, resumes, files, saved, analysis, issued, clock, groq>>

\* The read has returned: the request runs from there to its next await,
\* or to its end.
UploadResume(upsertRaises) ==
    /\ pending # <<>>
    /\ LET p == pending[1]
           w == UploadOne([World EXCEPT !.uploaded = p.uploaded],
                          p.job_id, p.files[p.i], upsertRaises)
           next == NextRead(p.files, p.i + 1)
       IN /\ resumes' = w.resumes
          /\ files' = w.files
          /\ issued' = [issued EXCEPT !.resume = w.next]
          /\ IF w.status # 200
             THEN /\ resp' = [op |-> "upload_resumes_for_job", status |-> w.status,
                              job_id |-> p.job_id, files |-> p.files]
                  /\ pending' = <<>>
             ELSE IF next > Len(p.files)
             THEN /\ resp' = [op |-> "upload_resumes_for_job", status |-> 200,
                              job_id |-> p.job_id, files |-> p.files,
                              uploaded |-> Len(w.uploaded), resumes |-> w.uploaded]
                  /\ pending' = <<>>
             ELSE /\ pending' = <<[p EXCEPT !.i = next, !.uploaded = w.uploaded]>>
                  /\ UNCHANGED resp
    /\ UNCHANGED <<jobs, saved, analysis, clock, groq>>

(***************************************************************************)
(* POST /api/user/resumes                                                  *)
(***************************************************************************)
UploadUserResume(file, upsertRaises) ==
    LET reject(code) ==
            /\ resp' = [op |-> "upload_user_resume", status |-> code, file |-> file]
            /\ UNCHANGED <<jobs, resumes, files, saved, analysis, issued, clock, groq, pending>>
    IN  IF file.content_type # PdfContentType THEN reject(400)
        ELSE IF file.bytes = "" THEN reject(400)
        ELSE IF PdfRaises(file.bytes) THEN reject(500)
        ELSE IF Strip(PdfToText(file.bytes)) = "" THEN reject(422)
        ELSE LET w == StoreResume(World, issued.resume + 1,
                                  [job_id |-> NoId, user_uploaded |-> TRUE,
                                   text |-> PdfToText(file.bytes)],
                                  upsertRaises)
             IN /\ resumes' = w.resumes
                /\ files' = w.files
                /\ issued' = [issued EXCEPT !.resume = w.next]
                /\ resp' = IF w.status = 200
                           THEN [op |-> "upload_user_resume", status |-> 200,
                                 file |-> file, resume_id |-> w.next]
                           ELSE [op |-> "upload_user_resume", status |-> 500,
                                 file |-> file]
                /\ UNCHANGED <<jobs, saved, analysis, clock, groq, pending>>

(***************************************************************************)
(* The ranking pipeline.                                                   *)
(***************************************************************************)
GenerateExplanation_NoThreshold(client, score, callRaises) ==
    IF ~client THEN None
    ELSE IF callRaises THEN None
    ELSE "explained"

GenerateExplanation_Uncaught(client, score, callRaises) ==
    IF ~client \/ score < EXPLANATION_THRESHOLD THEN None
    ELSE IF callRaises THEN "error"
    ELSE "explained"

\* _generate_explanation: None without a client, below the threshold, or
\* when the chat completion raises (caught); else the completion's text.
GenerateExplanation(client, score, callRaises) ==
    IF ~client \/ score < EXPLANATION_THRESHOLD THEN None
    ELSE IF callRaises THEN None
    ELSE "explained"

\* _generate_explanation reaches groq_client.chat.completions.create when
\* its guard lets it: a client is configured and the score is high enough.
ExplainerInvoked(client, score) == client /\ score >= EXPLANATION_THRESHOLD

\* The records of ms for which _generate_explanation was called and
\* invoked the Explainer
ExplainerCalls(ms, client) ==
    {ms[i].id : i \in {j \in 1..Len(ms) : ExplainerInvoked(client, ms[j].score)}}

\* The Explainer calls that may raise in one request, by candidate: none,
\* one of them, or all of them; none without a client, which makes no call.
Raising(candidates) ==
    IF groq THEN {{}} \cup {{c} : c \in candidates} \cup {candidates} ELSE {{}}

\* list.sort(key=score, reverse=True) puts x behind the elements that do
\* not score less: the sort is stable.
InsertByScore(sorted, x) ==
    LET k == Cardinality({i \in 1..Len(sorted) : sorted[i].score >= x.score})
    IN SubSeq(sorted, 1, k) \o <<x>> \o SubSeq(sorted, k + 1, Len(sorted))

RECURSIVE SortFrom(_, _, _)
SortFrom(sorted, ms, i) ==
    IF i > Len(ms) THEN sorted
    ELSE SortFrom(InsertByScore(sorted, ms[i]), ms, i + 1)

SortByScoreDesc_Unsorted(ms) == ms

SortByScoreDesc(ms) == SortFrom(<<>>, ms, 1)

\* The resumes filed under a job: Filter(must=[job_id == job_id])
ResumesOfJob(job_id) == {r \in DOMAIN resumes : resumes[r].job_id = job_id}

ScoredPoint(r, query_vector) ==
    [id |-> r, score |-> CosSim(query_vector, Embed(resumes[r].text))]

RECURSIVE NativeOrders(_, _)
\* qdrant_client.query_points(query, filter, limit): the limit nearest
\* points, nearest first. The store does not say how it orders points of
\* equal score, so every such order is a possible answer.
NativeOrders(points, limit) ==
    IF limit = 0 \/ points = {} THEN {<<>>}
    ELSE LET best == {p \in points : \A q \in points : q.score <= p.score}
         IN UNION {{<<p>> \o rest : rest \in NativeOrders(points \ {p}, limit - 1)}
                   : p \in best}

\* The fallback of rank_resumes_for_job: scroll, score each point, sort.
FallbackOrder(ids, query_vector) ==
    LET scrolled == Scroll(ids, MAX_SCALE)
    IN SortByScoreDesc([i \in 1..Len(scrolled) |-> ScoredPoint(scrolled[i], query_vector)])

\* rank_resumes_for_job: for rank, result in enumerate(search_results, 1)
RankedResumes(search_results, client, raises) ==
    [i \in 1..Len(search_results) |->
        [id |-> search_results[i].id,
         score |-> search_results[i].score,
         rank |-> i,
         explanation |-> IF i <= 3
                         THEN GenerateExplanation(client, search_results[i].score,
                                                  search_results[i].id \in raises)
                         ELSE None]]

InsertAt(s, pos, x) == SubSeq(s, 1, pos - 1) \o <<x>> \o SubSeq(s, pos, Len(s))

\* qdrant_client.upsert into analysis_results of a point with a fresh uuid4.
\* analysis holds the snapshots in id order; the fresh id falls at pos.
PersistSnapshot_Overwrite(store, snapshot, pos, upsertRaises) ==
    IF upsertRaises THEN store ELSE <<snapshot>>

PersistSnapshot_Partial(store, snapshot, pos, upsertRaises) ==
    InsertAt(store, pos, snapshot)

PersistSnapshot(store, snapshot, pos, upsertRaises) ==
    IF upsertRaises THEN store ELSE InsertAt(store, pos, snapshot)

\* search_results of rank_resumes_for_job: the answers query_points may
\* give, or the one list of the fallback when query_points raises.
SearchResults(job_id, queryRaises) ==
    LET job_vector == Embed(jobs[job_id].description_text)
    IN IF queryRaises
       THEN {FallbackOrder(ResumesOfJob(job_id), job_vector)}
       ELSE NativeOrders({ScoredPoint(r, job_vector) : r \in ResumesOfJob(job_id)},
                         MAX_SCALE)

HrSnapshot(job_id, ranked_resumes, now) ==
    [job_id |-> job_id, resume_id |-> NoId, result_type |-> "hr_ranking",
     results |-> ranked_resumes, timestamp |-> now]

(***************************************************************************)
(* POST /api/hr/jobs/{job_id}/rank                                         *)
(***************************************************************************)
RankResumesForJob(job_id, retrieveRaises, queryRaises, upsertRaises, slots) ==
    IF retrieveRaises \/ job_id \notin DOMAIN jobs
    THEN /\ resp' = [op |-> "rank_resumes_for_job", status |-> 404, job_id |-> job_id]
         /\ UNCHANGED <<jobs, resumes, files, saved, analysis, issued, clock, groq, pending>>
    ELSE \E search_results \in SearchResults(job_id, queryRaises),
            pos \in slots :
         \E raises \in Raising({search_results[i].id : i \in 1..Min(3, Len(search_results))}) :
         LET ranked_resumes == RankedResumes(search_results, groq, raises)
         IN /\ clock' = IF upsertRaises THEN clock ELSE clock + 1
            /\ analysis' = PersistSnapshot(analysis,
                                           HrSnapshot(job_id, ranked_resumes, clock + 1),
                                           pos, upsertRaises)
            /\ resp' = [op |-> "rank_resumes_for_job", status |-> 200,
                        job_id |-> job_id, matches |-> ranked_resumes,
                        calls |-> ExplainerCalls(Take(ranked_resumes, 3), groq),
                        path |-> IF queryRaises THEN "scroll" ELSE "query",
                        raises |-> raises,
                        upsert |-> IF upsertRaises THEN "raised" ELSE "stored"]
            /\ UNCHANGED <<jobs, resumes, files, saved, issued, groq, pending>>

(***************************************************************************)
(* GET /api/hr/jobs/{job_id}/latest-ranking and                            *)
(* GET /api/user/resumes/{resume_id}/latest-matches                        *)
(***************************************************************************)
\* results.sort(key=timestamp, reverse=True): stable, latest first
InsertByTimestamp(sorted, x) ==
    LET k == Cardinality({i \in 1..Len(sorted) : sorted[i].timestamp >= x.timestamp})
    IN SubSeq(sorted, 1, k) \o <<x>> \o SubSeq(sorted, k + 1, Len(sorted))

RECURSIVE SortByTimestampFrom(_, _, _)
SortByTimestampFrom(sorted, ms, i) ==
    IF i > Len(ms) THEN sorted
    ELSE SortByTimestampFrom(InsertByTimestamp(sorted, ms[i]), ms, i + 1)

SortByTimestampDesc(ms) == SortByTimestampFrom(<<>>, ms, 1)

\* scroll(analysis_results, filter, limit=10), then results[0] of the sort
LatestOf(matching) == SortByTimestampDesc(Take(matching, LatestScanLimit))[1]

GetLatestRanking(job_id, scrollRaises) ==
    LET hit(a) == a.job_id = job_id /\ a.result_type = "hr_ranking"
        matching == SelectSeq(analysis, hit)
    IN /\ resp' = IF scrollRaises \/ matching = <<>>
                  THEN [op |-> "get_latest_ranking", status |-> 200, job_id |-> job_id,
                        has_cached_results |-> FALSE]
                  ELSE [op |-> "get_latest_ranking", status |-> 200, job_id |-> job_id,
                        has_cached_results |-> TRUE,
                        timestamp |-> LatestOf(matching).timestamp,
                        matches |-> LatestOf(matching).results]
       /\ UNCHANGED <<jobs, resumes, files, saved, analysis, issued, clock, groq, pending>>

GetLatestMatches(resume_id, scrollRaises) ==
    LET hit(a) == a.resume_id = resume_id /\ a.result_type = "user_matching"
        matching == SelectSeq(analysis, hit)
    IN /\ resp' = IF scrollRaises \/ matching = <<>>
                  THEN [op |-> "get_latest_matches", status |-> 200,
                        resume_id |-> resume_id, has_cached_results |-> FALSE]
                  ELSE [op |-> "get_latest_matches", status |-> 200,
                        resume_id |-> resume_id, has_cached_results |-> TRUE,
                        timestamp |-> LatestOf(matching).timestamp,
                        matches |-> LatestOf(matching).results]
       /\ UNCHANGED <<jobs, resumes, files, saved, analysis, issued, clock, groq, pending>>

(***************************************************************************)
(* POST /api/user/resumes/{resume_id}/match-jobs                           *)
(* job_descriptions is the request's list; a job is named by its place in  *)
(* the list.                                                               *)
(***************************************************************************)
\* for rank, match in enumerate(job_matches, 1): only the top 3 keep theirs
AddRanks(job_matches) ==
    [i \in 1..Len(job_matches) |->
        [job_matches[i] EXCEPT !.rank = i,
                               !.explanation = IF i > 3 THEN None ELSE @]]

\* One pass of the loop over the candidates: a candidate without a
\* description is skipped, the others are scored and explained.
JobMatch(name, description, resume_vector, client, callRaises) ==
    LET score == CosSim(resume_vector, Embed(description))
    IN [id |-> name, score |-> score, rank |-> 0,
        explanation |-> GenerateExplanation(client, score, callRaises)]

AdhocMatches(job_descriptions, resume_vector, client, raises) ==
    LET described(i) == job_descriptions[i] # ""
        kept == SelectSeq([i \in 1..Len(job_descriptions) |-> i], described)
    IN [k \in 1..Len(kept) |->
          JobMatch(kept[k], job_descriptions[kept[k]], resume_vector, client,
                   kept[k] \in raises)]

MatchResumeToJobs(resume_id, job_descriptions, retrieveRaises, raises) ==
    IF retrieveRaises \/ resume_id \notin DOMAIN resumes
    THEN /\ resp' = [op |-> "match_resume_to_jobs", status |-> 404,
                     resume_id |-> resume_id]
         /\ UNCHANGED <<jobs, resumes, files, saved, analysis, issued, clock, groq, pending>>
    ELSE LET resume_vector == Embed(resumes[resume_id].text)
             job_matches == AddRanks(SortByScoreDesc(
                                AdhocMatches(job_descriptions, resume_vector, groq, raises)))
         IN /\ resp' = [op |-> "match_resume_to_jobs", status |-> 200,
                        resume_id |-> resume_id, matches |-> job_matches,
                        request |-> job_descriptions, raises |-> raises,
                        calls |-> ExplainerCalls(job_matches, groq)]
            /\ UNCHANGED <<jobs, resumes, files, saved, analysis, issued, clock, groq, pending>>

(***************************************************************************)
(* The saved job descriptions of the user's library                        *)
(***************************************************************************)
AddUserJobDescription(name, description) ==
    IF Strip(name) = "" \/ Strip(description) = ""
    THEN /\ resp' = [op |-> "add_user_job_description", status |-> 400]
         /\ UNCHANGED <<jobs, resumes, files, saved, analysis, issued, clock, groq, pending>>
    ELSE /\ LET job_id == issued.saved + 1
            IN /\ saved' = (job_id :> [description_text |-> Strip(description)]) @@ saved
               /\ issued' = [issued EXCEPT !.saved = job_id]
               /\ resp' = [op |-> "add_user_job_description", status |-> 200,
                           job_description_id |-> job_id]
         /\ UNCHANGED <<jobs, resumes, files, analysis, clock, groq, pending>>

DeleteUserJobDescription(job_id, deleteRaises) ==
    IF deleteRaises
    THEN /\ resp' = [op |-> "delete_user_job_description", status |-> 404]
         /\ UNCHANGED <<jobs, resumes, files, saved, analysis, issued, clock, groq, pending>>
    ELSE /\ saved' = [j \in DOMAIN saved \ {job_id} |-> saved[j]]
         /\ resp' = [op |-> "delete_user_job_description", status |-> 200]
         /\ UNCHANGED <<jobs, resumes, files, analysis, issued, clock, groq, pending>>

(***************************************************************************)
(* POST /api/user/resumes/{resume_id}/match-saved-jobs                     *)
(***************************************************************************)
SavedMatches(scrolled, resume_vector, client, raises) ==
    [k \in 1..Len(scrolled) |->
        JobMatch(scrolled[k], saved[scrolled[k]].description_text, resume_vector,
                 client, scrolled[k] \in raises)]

UserSnapshot(resume_id, job_matches, now) ==
    [job_id |-> NoId, resume_id |-> resume_id, result_type |-> "user_matching",
     results |-> job_matches, timestamp |-> now]

MatchResumeToSavedJobs(resume_id, retrieveRaises, upsertRaises, slots) ==
    IF retrieveRaises \/ resume_id \notin DOMAIN resumes
    THEN /\ resp' = [op |-> "match_resume_to_saved_jobs", status |-> 404,
                     resume_id |-> resume_id]
         /\ UNCHANGED <<jobs, resumes, files, saved, analysis, issued, clock, groq, pending>>
    ELSE IF DOMAIN saved = {}
    THEN /\ resp' = [op |-> "match_resume_to_saved_jobs", status |-> 200,
                     resume_id |-> resume_id, matches |-> <<>>,
                     raises |-> {}, calls |-> {}, upsert |-> "skipped"]
         /\ UNCHANGED <<jobs, resumes, files, saved, analysis, issued, clock, groq, pending>>
    ELSE \E raises \in Raising(DOMAIN saved), pos \in slots :
         LET resume_vector == Embed(resumes[resume_id].text)
             scrolled == Scroll(DOMAIN saved, SavedScanLimit)
             job_matches == AddRanks(SortByScoreDesc(
                                SavedMatches(scrolled, resume_vector, groq, raises)))
         IN /\ clock' = IF upsertRaises THEN clock ELSE clock + 1
            /\ analysis' = PersistSnapshot(analysis,
                                           UserSnapshot(resume_id, job_matches, clock + 1),
                                           pos, upsertRaises)
            /\ resp' = [op |-> "match_resume_to_saved_jobs", status |-> 200,
                        resume_id |-> resume_id, matches |-> job_matches,
                        raises |-> raises,
                        calls |-> ExplainerCalls(job_matches, groq),
                        upsert |-> IF upsertRaises THEN "raised" ELSE "stored"]
            /\ UNCHANGED <<jobs, resumes, files, saved, issued, groq, pending>>

(***************************************************************************)
(* DELETE /api/hr/jobs/{job_id}                                            *)
(***************************************************************************)
Without_Nothing(f, x) == f

\* qdrant_client.delete(collection, points_selector=[x])
Without(f, x) == [y \in DOMAIN f \ {x} |-> f[y]]

DeleteOne_CountsAll(w, rid, removeRaises, deleteRaises) ==
    IF w.status # 200 THEN w
    ELSE LET w1 == [w EXCEPT !.files = IF removeRaises THEN @ ELSE @ \ {rid},
                             !.deleted_count = @ + 1]
         IN IF deleteRaises
            THEN [w1 EXCEPT !.status = 500]
            ELSE [w1 EXCEPT !.resumes = Without(@, rid)]

\* The loop body for one scrolled point: remove the file when it exists
\* (a failure is logged and not counted), then delete the record (a
\* failure ends the request).
DeleteOne(w, rid, removeRaises, deleteRaises) ==
    IF w.status # 200 THEN w
    ELSE LET removed == rid \in w.files /\ ~removeRaises
             w1 == IF removed
                   THEN [w EXCEPT !.files = @ \ {rid}, !.deleted_count = @ + 1]
                   ELSE w
         IN IF deleteRaises
            THEN [w1 EXCEPT !.status = 500]
            ELSE [w1 EXCEPT !.resumes = Without(@, rid)]

RECURSIVE DeleteLoop(_, _, _, _, _)
\* for point in scroll_result[0]: ..., os.remove raising for the ids of
\* removeFails and the delete of point number failAt raising (0: none)
DeleteLoop(w, points, i, removeFails, failAt) ==
    IF i > Len(points) THEN w
    ELSE DeleteLoop(DeleteOne(w, points[i], points[i] \in removeFails, i = failAt),
                    points, i + 1, removeFails, failAt)

DeleteJob(job_id, scrollRaises, removeFails, failAt, jobDeleteRaises) ==
    IF scrollRaises
    THEN /\ resp' = [op |-> "delete_job", status |-> 500, job_id |-> job_id]
         /\ UNCHANGED <<jobs, resumes, files, saved, analysis, issued, clock, groq, pending>>
    ELSE LET points == Scroll(ResumesOfJob(job_id), MAX_SCALE)
             w == DeleteLoop([resumes |-> resumes, files |-> files,
                              deleted_count |-> 0, status |-> 200],
                             points, 1, removeFails, failAt)
         IN /\ resumes' = w.resumes
            /\ files' = w.files
            /\ jobs' = IF w.status = 200 /\ ~jobDeleteRaises
                       THEN Without(jobs, job_id) ELSE jobs
            /\ resp' = IF w.status = 200
                       THEN [op |-> "delete_job", status |-> 200, job_id |-> job_id,
                             deleted_resumes |-> w.deleted_count]
                       ELSE [op |-> "delete_job", status |-> 500, job_id |-> job_id]
            /\ UNCHANGED <<saved, analysis, issued, clock, groq, pending>>

(***************************************************************************)
(* DELETE /api/user/resumes/{resume_id}                                    *)
(***************************************************************************)
DeleteUserResume(resume_id, retrieveRaises, removeRaises, deleteRaises) ==
    LET failed == [op |-> "delete_user_resume", status |-> 500, resume_id |-> resume_id]
    IN IF retrieveRaises
       THEN /\ resp' = failed
            /\ UNCHANGED <<jobs, resumes, files, saved, analysis, issued, clock, groq, pending>>
       ELSE IF resume_id \notin DOMAIN resumes
       THEN /\ resp' = [op |-> "delete_user_resume", status |-> 404,
                        resume_id |-> resume_id]
            /\ UNCHANGED <<jobs, resumes, files, saved, analysis, issued, clock, groq, pending>>
       ELSE IF resume_id \in files /\ removeRaises
       THEN /\ resp' = failed
            /\ UNCHANGED <<jobs, resumes, files, saved, analysis, issued, clock, groq, pending>>
       ELSE IF deleteRaises
       THEN /\ files' = files \ {resume_id}
            /\ resp' = failed
            /\ UNCHANGED <<jobs, resumes, saved, analysis, issued, clock, groq, pending>>
       ELSE /\ files' = files \ {resume_id}
            /\ resumes' = Without(resumes, resume_id)
            /\ resp' = [op |-> "delete_user_resume", status |-> 200,
                        resume_id |-> resume_id, success |-> TRUE]
            /\ UNCHANGED <<jobs, saved, analysis, issued, clock, groq, pending>>

(***************************************************************************)
(* Requests. The inputs of a request are drawn from small sets; a path     *)
(* parameter ranges over the ids that can have been issued, so that a      *)
(* request may name an id that is not (or no longer) stored.               *)
(***************************************************************************)
JobTexts == {"go", "ml"}
ResumeTexts == {"go", "py"}

Pdf(text) == File(PdfContentType, text)

\* The non-empty lists of at most n elements of S
Lists(S, n) == UNION {[1..k -> S] : k \in 1..n}

AnySlot == 1..(Len(analysis) + 1)

(***************************************************************************)
(* SpecRank: the three ranking requests over the stores the uploads build, *)
(* for one job and the resumes filed under it one by one.                  *)
(* The HR workflow (jobs, the resumes filed under them, the ranking) and   *)
(* the job seeker's (own resumes, saved or listed job descriptions, the    *)
(* matching) read disjoint data, and are explored one at a time. The       *)
(* analysis_results upsert raises here (the handlers swallow it), so that  *)
(* the stores are not multiplied by their snapshots; the upsert that       *)
(* succeeds is the matter of SpecPersist and SpecCache.                    *)
(***************************************************************************)
RankingOps == {"rank_resumes_for_job", "match_resume_to_jobs",
               "match_resume_to_saved_jobs"}

\* A ranking request of SpecRank leaves every store as it is, so a ranking
\* request made right after another reaches no state that the same request
\* made in its place does not reach; SpecRank makes it after a write only.
AfterWrite == resp.op \notin RankingOps

HrFlow ==
    /\ DOMAIN saved = {}
    /\ \A r \in DOMAIN resumes : ~resumes[r].user_uploaded

UserFlow ==
    /\ DOMAIN jobs = {}
    /\ \A r \in DOMAIN resumes : resumes[r].user_uploaded

RankCreateJob ==
    /\ HrFlow
    /\ DOMAIN jobs = {}
    /\ \E description \in JobTexts :
          CreateJob("dev", description)

RankUploadResumes ==
    /\ HrFlow
    /\ issued.resume < MaxResumes
    /\ \E job_id \in DOMAIN jobs, text \in ResumeTexts :
          UploadResumesForJob(job_id, <<Pdf(text)>>, FALSE, 0)

RankRankResumes ==
    /\ AfterWrite
    /\ \E job_id \in DOMAIN jobs, queryRaises \in BOOLEAN :
          RankResumesForJob(job_id, FALSE, queryRaises, TRUE, AnySlot)

RankUploadUserResume ==
    /\ UserFlow
    /\ issued.resume < MaxUserResumes
    /\ \E text \in ResumeTexts :
          UploadUserResume(Pdf(text), FALSE)

RankAddSaved ==
    /\ UserFlow
    /\ issued.saved < MaxSaved
    /\ \E description \in JobTexts :
          AddUserJobDescription("dev", description)

RankMatchJobs ==
    /\ UserFlow
    /\ AfterWrite
    /\ DOMAIN saved = {}
    /\ \E resume_id \in DOMAIN resumes \cup {issued.resume + 1},
          job_descriptions \in Lists(JobTexts \cup {""}, MaxAdhoc) :
          \E raises \in Raising(1..Len(job_descriptions)) :
              MatchResumeToJobs(resume_id, job_descriptions, FALSE, raises)

RankMatchSaved ==
    /\ UserFlow
    /\ AfterWrite
    /\ \E resume_id \in DOMAIN resumes \cup {issued.resume + 1} :
          MatchResumeToSavedJobs(resume_id, FALSE, TRUE, AnySlot)

NextRank ==
    \/ RankCreateJob
    \/ RankUploadResumes
    \/ RankRankResumes
    \/ RankUploadUserResume
    \/ RankAddSaved
    \/ RankMatchJobs
    \/ RankMatchSaved

SpecRank == Init /\ [][NextRank]_vars

(***************************************************************************)
(* The claims on the match lists, under SpecRank.                          *)
(***************************************************************************)
\* The last request was a ranking request that returned its match list.
Ranked == resp.op \in RankingOps /\ resp.status = 200

\* C1: in every match list returned by rank_resumes_for_job,
\* match_resume_to_jobs and match_resume_to_saved_jobs the ranks are 1..n in
\* list order and the score never rises from one rank to the next.
C1_RankMonotonic ==
    Ranked =>
        \A i \in 1..Len(resp.matches) :
            /\ resp.matches[i].rank = i
            /\ i < Len(resp.matches) =>
                   resp.matches[i + 1].score <= resp.matches[i].score

\* A list the sort had to reorder: the record ranked first was neither
\* first in scroll order (rank_resumes_for_job by its fallback) nor alone.
C1_Witness ==
    /\ Ranked
    /\ resp.op = "rank_resumes_for_job"
    /\ resp.path = "scroll"
    /\ Len(resp.matches) >= 3
    /\ resp.matches[1].id > resp.matches[2].id
    /\ resp.matches[1].score > resp.matches[3].score

\* C2: in every match list of the three ranking requests a record of rank
\* above 3 has no explanation, and neither has a record that scores below
\* EXPLANATION_THRESHOLD, whatever its rank.
C2_ExplanationEligibility ==
    Ranked =>
        \A i \in 1..Len(resp.matches) :
            (resp.matches[i].rank > 3 \/ resp.matches[i].score < EXPLANATION_THRESHOLD)
                => resp.matches[i].explanation = None

\* A list whose fourth record scores enough and yet is not explained,
\* while the first is.
C2_Witness ==
    /\ Ranked
    /\ resp.op = "rank_resumes_for_job"
    /\ Len(resp.matches) >= 4
    /\ resp.matches[4].score >= EXPLANATION_THRESHOLD
    /\ resp.matches[4].explanation = None
    /\ resp.matches[1].explanation # None

Ids(ms) == [i \in 1..Len(ms) |-> ms[i].id]

\* C8: rank_resumes_for_job returns the same ordering of resume ids by the
\* nearest-neighbour query as by the scroll-and-sort fallback. (Ranking
\* leaves jobs and resumes as they were, so both are those of the request.)
C8_FallbackEquivalence ==
    (Ranked /\ resp.op = "rank_resumes_for_job") =>
        \A native \in SearchResults(resp.job_id, FALSE),
           fallback \in SearchResults(resp.job_id, TRUE) :
            Ids(native) = Ids(fallback)

\* The lists a ranking request returns when the Explainer is configured and
\* none of its calls raises.
HealthyLists ==
    CASE resp.op = "rank_resumes_for_job" ->
            {RankedResumes(sr, TRUE, {}) :
                sr \in SearchResults(resp.job_id, resp.path = "scroll")}
      [] resp.op = "match_resume_to_jobs" ->
            {AddRanks(SortByScoreDesc(
                AdhocMatches(resp.request, Embed(resumes[resp.resume_id].text),
                             TRUE, {})))}
      [] OTHER ->
            {AddRanks(SortByScoreDesc(
                SavedMatches(Scroll(DOMAIN saved, SavedScanLimit),
                             Embed(resumes[resp.resume_id].text), TRUE, {})))}

\* C9: without an Explainer, or with Explainer calls that raise, a ranking
\* request returns the list (ids, scores, ranks) it returns otherwise; the
\* records whose call raised, or all without an Explainer, have no
\* explanation and every other record has the explanation it has otherwise.
C9_ExplainerIsolation ==
    Ranked =>
        \E healthy \in HealthyLists :
            /\ Len(healthy) = Len(resp.matches)
            /\ \A i \in 1..Len(healthy) :
                  /\ resp.matches[i].id = healthy[i].id
                  /\ resp.matches[i].score = healthy[i].score
                  /\ resp.matches[i].rank = healthy[i].rank
                  /\ resp.matches[i].explanation =
                        IF ~groq \/ resp.matches[i].id \in resp.raises
                        THEN None ELSE healthy[i].explanation

\* One call raised for a record that would have been explained, and
\* another record of the list is explained all the same.
C9_Witness ==
    /\ Ranked
    /\ groq
    /\ \E i, j \in 1..Len(resp.matches) :
          /\ i <= 3
          /\ resp.matches[i].id \in resp.raises
          /\ resp.matches[i].score >= EXPLANATION_THRESHOLD
          /\ resp.matches[i].explanation = None
          /\ resp.matches[j].explanation # None

\* C13: in each of the three ranking requests the Explainer is invoked only
\* for records that end with a rank of at most 3 and a score of at least
\* EXPLANATION_THRESHOLD, hence at most 3 times in a request.
C13_ExplainerCallsBounded ==
    Ranked =>
        /\ Cardinality(resp.calls) <= 3
        /\ \A c \in resp.calls :
              \E i \in 1..Len(resp.matches) :
                  /\ resp.matches[i].id = c
                  /\ resp.matches[i].rank <= 3
                  /\ resp.matches[i].score >= EXPLANATION_THRESHOLD

\* C14: a match list of a ranking request has at most MAX_SCALE records,
\* however many candidates are stored or submitted; with more candidates
\* the request still succeeds.
C14_ListWithinScale ==
    resp.op \in RankingOps =>
        (resp.status = 404 \/ (resp.status = 200 /\ Len(resp.matches) <= MAX_SCALE))

(***************************************************************************)
(* SpecStore: the uploads and the deletes, with every kind of file and     *)
(* with the calls of delete_user_resume that may raise.                    *)
(***************************************************************************)
StoreFiles == {Pdf("go"), Pdf(""), Pdf(CorruptPdf), Pdf(ScannedPdf),
               File("text/plain", "go")}

StoreCreateJob ==
    /\ issued.job < MaxJobs
    /\ CreateJob("dev", "go")

StoreUploadResumes ==
    \E job_id \in JobIds, fs \in Lists(StoreFiles, MaxBatch) :
        /\ issued.resume + Len(fs) <= StoreResumes
        /\ UploadResumesForJob(job_id, fs, FALSE, 0)

StoreUploadUserResume ==
    \E file \in StoreFiles :
        /\ issued.resume < StoreResumes
        /\ UploadUserResume(file, FALSE)

StoreDeleteJob ==
    \E job_id \in JobIds :
        DeleteJob(job_id, FALSE, {}, 0, FALSE)

StoreDeleteUserResume ==
    \E resume_id \in 1..StoreResumes,
       retrieveRaises, removeRaises, deleteRaises \in BOOLEAN :
        DeleteUserResume(resume_id, retrieveRaises, removeRaises, deleteRaises)

NextStore ==
    \/ StoreCreateJob
    \/ StoreUploadResumes
    \/ StoreUploadUserResume
    \/ StoreDeleteJob
    \/ StoreDeleteUserResume

SpecStore == Init /\ [][NextStore]_vars

(***************************************************************************)
(* The claims on the uploads and on delete_user_resume, under SpecStore.   *)
(***************************************************************************)
\* C4: when delete_user_resume returns success, the resumes collection holds
\* no record of that id and the PDF file of the record no longer exists.
C4_DeleteRemovesBoth ==
    (resp.op = "delete_user_resume" /\ resp.status = 200) =>
        /\ resp.resume_id \notin DOMAIN resumes
        /\ resp.resume_id \notin files

\* A resume deleted with success while other resumes and files remain.
C4_Witness ==
    /\ resp.op = "delete_user_resume"
    /\ resp.status = 200
    /\ resp.resume_id <= issued.resume
    /\ DOMAIN resumes # {}
    /\ files # {}

NonPdf(file) == file.content_type # PdfContentType
ZeroBytes(file) == file.content_type = PdfContentType /\ file.bytes = ""
NoText(file) == file.content_type = PdfContentType /\ file.bytes = ScannedPdf

\* C6: upload_user_resume answers 400 to a file that is no PDF and to a
\* zero-byte file, and 422 to a PDF without text; none of the three writes
\* a file or adds a record to resumes.
C6_IngestRejects ==
    [][resp'.op = "upload_user_resume" =>
          /\ (NonPdf(resp'.file) \/ ZeroBytes(resp'.file)) =>
                 (resp'.status = 400 /\ UNCHANGED <<resumes, files, issued>>)
          /\ NoText(resp'.file) =>
                 (resp'.status = 422 /\ UNCHANGED <<resumes, files, issued>>)]_vars

\* A PDF without text was refused by a store that holds resumes.
C6_Witness ==
    /\ resp.op = "upload_user_resume"
    /\ resp.status = 422
    /\ NoText(resp.file)
    /\ DOMAIN resumes # {}

\* A file that is a PDF, is not empty and yields text that is not blank
Accepted(file) ==
    /\ file.content_type = PdfContentType
    /\ file.bytes # ""
    /\ ~PdfRaises(file.bytes)
    /\ Strip(PdfToText(file.bytes)) # ""

CountAccepted(fs) == Cardinality({i \in 1..Len(fs) : Accepted(fs[i])})

\* C7: for any list of files, upload_resumes_for_job reports as uploaded,
\* and creates as records and as PDF files, as many as the list has files
\* that are PDFs, are not empty and yield text; the other files are skipped
\* and do not stop the files after them.
C7_BatchCount ==
    [][(resp'.op = "upload_resumes_for_job" /\ resp'.status # 404) =>
          /\ resp'.status = 200
          /\ resp'.uploaded = CountAccepted(resp'.files)
          /\ Cardinality(DOMAIN resumes' \ DOMAIN resumes) = CountAccepted(resp'.files)
          /\ Cardinality(files' \ files) = CountAccepted(resp'.files)]_vars

\* A PDF the extractor raises on (pypdf cannot open it)
ExtractionFails(file) ==
    /\ file.content_type = PdfContentType
    /\ file.bytes # ""
    /\ PdfRaises(file.bytes)

\* C16: when the text extraction raises for a file of the batch of
\* upload_resumes_for_job, only that file is skipped: the request does not
\* end in an error, and every valid file after it is stored and reported.
C16_ExtractorFailureSkipped ==
    [][(/\ resp'.op = "upload_resumes_for_job"
        /\ \E i \in 1..Len(resp'.files) : ExtractionFails(resp'.files[i])) =>
          /\ resp'.status = 200
          /\ \A i \in 1..Len(resp'.files) :
                Accepted(resp'.files[i]) =>
                    \E r \in DOMAIN resumes' \ DOMAIN resumes :
                        /\ resumes'[r].text = PdfToText(resp'.files[i].bytes)
                        /\ r \in files'
                        /\ r \in {resp'.resumes[n] : n \in 1..Len(resp'.resumes)}]_vars

(***************************************************************************)
(* SpecCascade: jobs with up to CascadeResumes resumes, and their deletion.*)
(***************************************************************************)
CascadeCreateJob ==
    /\ issued.job < MaxJobs
    /\ CreateJob("dev", "go")

CascadeUploadResumes ==
    \E job_id \in JobIds, fs \in Lists({Pdf("go")}, MaxBatch) :
        /\ issued.resume + Len(fs) <= CascadeResumes
        /\ UploadResumesForJob(job_id, fs, FALSE, 0)

CascadeUploadUserResume ==
    /\ issued.resume < CascadeResumes
    /\ UploadUserResume(Pdf("go"), FALSE)

CascadeDeleteJob ==
    \E job_id \in JobIds :
        DeleteJob(job_id, FALSE, {}, 0, FALSE)

NextCascade ==
    \/ CascadeCreateJob
    \/ CascadeUploadResumes
    \/ CascadeUploadUserResume
    \/ CascadeDeleteJob

SpecCascade == Init /\ [][NextCascade]_vars

\* C5: after delete_job has completed, no record of resumes has the job's
\* id as its job_id, however many resumes were filed under the job.
C5_CascadeComplete ==
    (resp.op = "delete_job" /\ resp.status = 200) => ResumesOfJob(resp.job_id) = {}

(***************************************************************************)
(* SpecPersist: the two requests that store a snapshot, with an upsert     *)
(* into analysis_results that succeeds or raises, over small stores.       *)
(***************************************************************************)
\* A request whose upsert raises leaves every store as it is, so after one
\* such request a second reaches nothing the first does not reach.
AfterRaisedUpsert == "upsert" \in DOMAIN resp /\ resp.upsert = "raised"

PersistCreateJob ==
    /\ HrFlow
    /\ issued.job < MaxJobs
    /\ CreateJob("dev", "go")

PersistUploadResumes ==
    /\ HrFlow
    /\ issued.resume < PersistResumes
    /\ \E job_id \in DOMAIN jobs :
          UploadResumesForJob(job_id, <<Pdf("go")>>, FALSE, 0)

PersistUploadUserResume ==
    /\ UserFlow
    /\ issued.resume < MaxUserResumes
    /\ UploadUserResume(Pdf("go"), FALSE)

PersistAddSaved ==
    /\ UserFlow
    /\ issued.saved < PersistResumes
    /\ \E description \in JobTexts :
          AddUserJobDescription("dev", description)

PersistRankResumes ==
    \E job_id \in DOMAIN jobs, upsertRaises \in BOOLEAN :
        /\ IF upsertRaises THEN ~AfterRaisedUpsert ELSE clock < MaxClock
        /\ RankResumesForJob(job_id, FALSE, FALSE, upsertRaises, AnySlot)

PersistMatchSaved ==
    /\ UserFlow
    /\ \E resume_id \in DOMAIN resumes, upsertRaises \in BOOLEAN :
          /\ IF upsertRaises THEN ~AfterRaisedUpsert ELSE clock < MaxClock
          /\ MatchResumeToSavedJobs(resume_id, FALSE, upsertRaises, AnySlot)

NextPersist ==
    \/ PersistCreateJob
    \/ PersistUploadResumes
    \/ PersistUploadUserResume
    \/ PersistAddSaved
    \/ PersistRankResumes
    \/ PersistMatchSaved

SpecPersist == Init /\ [][NextPersist]_vars

\* The number of records the request of resp has to rank
CandidateCount ==
    IF resp.op = "rank_resumes_for_job"
    THEN Min(MAX_SCALE, Cardinality(ResumesOfJob(resp.job_id)))
    ELSE Min(SavedScanLimit, Cardinality(DOMAIN saved))

\* C10: when the upsert of the snapshot raises in rank_resumes_for_job or
\* match_resume_to_saved_jobs, the request still succeeds and returns the
\* computed list, and analysis_results is left as it was.
C10_PersistFailureTolerated ==
    [][("upsert" \in DOMAIN resp' /\ resp'.upsert = "raised") =>
          /\ resp'.status = 200
          /\ Len(resp'.matches) = CandidateCount'
          /\ \A i \in 1..Len(resp'.matches) : resp'.matches[i].rank = i
          /\ analysis' = analysis]_vars

\* The upsert raised for a list that is not empty, with snapshots of
\* earlier requests in analysis_results.
C10_Witness ==
    /\ "upsert" \in DOMAIN resp
    /\ resp.upsert = "raised"
    /\ resp.status = 200
    /\ resp.matches # <<>>
    /\ analysis # <<>>

(***************************************************************************)
(* SpecCache: one job ranked again and again, with a resume uploaded at    *)
(* some point in between, and the cached ranking read back. The id of a    *)
(* new snapshot is the least or the greatest of analysis_results.          *)
(***************************************************************************)
CacheCreateJob ==
    /\ issued.job < MaxJobs
    /\ CreateJob("dev", "ml")

CacheUploadResumes ==
    \E job_id \in JobIds :
        /\ issued.resume < MaxUserResumes
        /\ UploadResumesForJob(job_id, <<Pdf("go")>>, FALSE, 0)

CacheRankResumes ==
    \E job_id \in DOMAIN jobs :
        /\ clock < CacheRankings
        /\ RankResumesForJob(job_id, FALSE, FALSE, FALSE, {1, Len(analysis) + 1})

CacheGetLatestRanking ==
    \E job_id \in JobIds :
        GetLatestRanking(job_id, FALSE)

NextCache ==
    \/ CacheCreateJob
    \/ CacheUploadResumes
    \/ CacheRankResumes
    \/ CacheGetLatestRanking

SpecCache == Init /\ [][NextCache]_vars

\* The snapshots of analysis_results that hold a ranking of the job
RankingsOf(job_id) ==
    {i \in 1..Len(analysis) : /\ analysis[i].job_id = job_id
                              /\ analysis[i].result_type = "hr_ranking"}

\* C3: after two or more rankings of a job, get_latest_ranking returns the
\* list of the ranking made last, not the list of an earlier one.
C3_LatestReturned ==
    (resp.op = "get_latest_ranking" /\ Cardinality(RankingsOf(resp.job_id)) >= 2) =>
        /\ resp.has_cached_results
        /\ \E i \in RankingsOf(resp.job_id) :
              /\ \A j \in RankingsOf(resp.job_id) :
                    analysis[j].timestamp <= analysis[i].timestamp
              /\ resp.timestamp = analysis[i].timestamp
              /\ resp.matches = analysis[i].results

(***************************************************************************)
(* SpecLookup: requests that name a job or a resume by an id that may have *)
(* no record (a path parameter is any id the client cares to send).        *)
(***************************************************************************)
LookupCreateJob ==
    /\ issued.job < MaxJobs
    /\ CreateJob("dev", "go")

LookupUploadResumes ==
    /\ issued.resume < PersistResumes
    /\ \E job_id \in JobIds :
          UploadResumesForJob(job_id, <<Pdf("go")>>, FALSE, 0)

LookupUploadUserResume ==
    /\ issued.resume < PersistResumes
    /\ UploadUserResume(Pdf("go"), FALSE)

LookupAddSaved ==
    /\ issued.saved < MaxUserResumes
    /\ AddUserJobDescription("dev", "go")

LookupRankResumes ==
    /\ clock < MaxClock
    /\ \E job_id \in JobIds :
          RankResumesForJob(job_id, FALSE, FALSE, FALSE, AnySlot)

LookupMatchJobs ==
    \E resume_id \in 1..PersistResumes, description \in JobTexts :
        MatchResumeToJobs(resume_id, <<description>>, FALSE, {})

LookupMatchSaved ==
    /\ clock < MaxClock
    /\ \E resume_id \in 1..PersistResumes :
          MatchResumeToSavedJobs(resume_id, FALSE, FALSE, AnySlot)

NextLookup ==
    \/ LookupCreateJob
    \/ LookupUploadResumes
    \/ LookupUploadUserResume
    \/ LookupAddSaved
    \/ LookupRankResumes
    \/ LookupMatchJobs
    \/ LookupMatchSaved

SpecLookup == Init /\ [][NextLookup]_vars

MatchOps == {"match_resume_to_jobs", "match_resume_to_saved_jobs"}

\* C11: upload_resumes_for_job for a job id without a record answers
\* not-found and creates no resume record and no file; rank_resumes_for_job
\* for an unknown job id and the two match requests for an unknown resume
\* id answer not-found and store no snapshot.
C11_UnknownIdNotFound ==
    [][/\ (resp'.op = "upload_resumes_for_job" /\ resp'.job_id \notin DOMAIN jobs) =>
             (resp'.status = 404 /\ UNCHANGED <<resumes, files>>)
       /\ (resp'.op = "rank_resumes_for_job" /\ resp'.job_id \notin DOMAIN jobs) =>
             (resp'.status = 404 /\ UNCHANGED analysis)
       /\ (resp'.op \in MatchOps /\ resp'.resume_id \notin DOMAIN resumes) =>
             (resp'.status = 404 /\ UNCHANGED analysis)]_vars

(***************************************************************************)
(* SpecFaults: the uploads and the deletions with vector-store calls and   *)
(* file removals that may fail.                                            *)
(***************************************************************************)
FaultsCreateJob ==
    /\ issued.job < MaxJobs
    /\ CreateJob("dev", "go")

FaultsUploadResumes ==
    \E job_id \in DOMAIN jobs, fs \in Lists({Pdf("go")}, MaxBatch) :
        /\ issued.resume + Len(fs) <= StoreResumes
        /\ \E failAt \in 0..Len(fs) :
              UploadResumesForJob(job_id, fs, FALSE, failAt)

FaultsUploadUserResume ==
    /\ issued.resume < StoreResumes
    /\ \E upsertRaises \in BOOLEAN :
          UploadUserResume(Pdf("go"), upsertRaises)

FaultsDeleteJob ==
    \E job_id \in DOMAIN jobs, scrollRaises, jobDeleteRaises \in BOOLEAN :
        \E removeFails \in SUBSET ResumesOfJob(job_id),
           failAt \in 0..Cardinality(ResumesOfJob(job_id)) :
            DeleteJob(job_id, scrollRaises, removeFails, failAt, jobDeleteRaises)

FaultsDeleteUserResume ==
    \E resume_id \in DOMAIN resumes,
       retrieveRaises, removeRaises, deleteRaises \in BOOLEAN :
        DeleteUserResume(resume_id, retrieveRaises, removeRaises, deleteRaises)

NextFaults ==
    \/ FaultsCreateJob
    \/ FaultsUploadResumes
    \/ FaultsUploadUserResume
    \/ FaultsDeleteJob
    \/ FaultsDeleteUserResume

SpecFaults == Init /\ [][NextFaults]_vars

\* C12: after any sequence of completed uploads and deletions, those that
\* ended in an error because a store call or a file removal failed
\* included, resumes holds a record of id r exactly when the file
\* uploads/resumes/r.pdf exists.
C12_FileRecordLockstep == DOMAIN resumes = files

(***************************************************************************)
(* SpecDelete: delete_job over resumes whose file may be gone already (a   *)
(* delete_user_resume that failed half-way) or may resist removal, and     *)
(* with a record deletion that may raise.                                  *)
(***************************************************************************)
DeleteCreateJob ==
    /\ issued.job < MaxJobs
    /\ CreateJob("dev", "go")

DeleteUploadResumes ==
    /\ issued.resume < DeleteResumes
    /\ \E job_id \in DOMAIN jobs :
          UploadResumesForJob(job_id, <<Pdf("go")>>, FALSE, 0)

DeleteDeleteUserResume ==
    \E resume_id \in DOMAIN resumes, deleteRaises \in BOOLEAN :
        DeleteUserResume(resume_id, FALSE, FALSE, deleteRaises)

DeleteDeleteJob ==
    \E job_id \in DOMAIN jobs :
        \E removeFails \in SUBSET ResumesOfJob(job_id),
           failAt \in 0..Cardinality(ResumesOfJob(job_id)) :
            DeleteJob(job_id, FALSE, removeFails, failAt, FALSE)

NextDelete ==
    \/ DeleteCreateJob
    \/ DeleteUploadResumes
    \/ DeleteDeleteUserResume
    \/ DeleteDeleteJob

SpecDelete == Init /\ [][NextDelete]_vars

\* The resumes delete_job enumerates for a job
Enumerated(job_id) ==
    LET points == Scroll(ResumesOfJob(job_id), MAX_SCALE)
    IN {points[i] : i \in 1..Len(points)}

\* C15: delete_job deletes the job's record only after every enumerated
\* resume is processed, and deleted_resumes is the number of files it
\* removed: a file that is absent or cannot be removed lowers the count,
\* and the request still completes, deleting that resume's record, the
\* other resumes and the job. Only a record deletion that raises ends the
\* request early, and then the job's record is still there.
C15_DeleteJobCounts ==
    [][resp'.op = "delete_job" =>
          IF resp'.status = 200
          THEN /\ resp'.deleted_resumes = Cardinality(files \ files')
               /\ \A r \in Enumerated(resp'.job_id) : r \notin DOMAIN resumes'
               /\ resp'.job_id \notin DOMAIN jobs'
          ELSE /\ \E r \in Enumerated(resp'.job_id) : r \in DOMAIN resumes'
               /\ jobs' = jobs]_vars

\* delete_job completed although a file resisted removal: the file is
\* there without its record, another file was removed and counted, and
\* the job is gone.
C15_Witness ==
    /\ resp.op = "delete_job"
    /\ resp.status = 200
    /\ resp.deleted_resumes >= 1
    /\ resp.job_id \notin DOMAIN jobs
    /\ \E r \in files : r \notin DOMAIN resumes

(***************************************************************************)
(* SpecArchive: rankings and matchings that store their snapshots, the     *)
(* deletions of jobs and resumes, and the cached ranking read back. The id *)
(* of a new snapshot is the least or the greatest of analysis_results, and *)
(* ArchiveObjects bounds the jobs, resumes and saved jobs ever created.     *)
(***************************************************************************)
Created == issued.job + issued.resume + issued.saved

ArchiveCreateJob ==
    /\ issued.job < MaxJobs
    /\ Created < ArchiveObjects
    /\ CreateJob("dev", "ml")

ArchiveUploadResumes ==
    /\ Created < ArchiveObjects
    /\ \E job_id \in DOMAIN jobs :
          UploadResumesForJob(job_id, <<Pdf("go")>>, FALSE, 0)

ArchiveUploadUserResume ==
    /\ Created < ArchiveObjects
    /\ UploadUserResume(Pdf("go"), FALSE)

ArchiveAddSaved ==
    /\ Created < ArchiveObjects
    /\ AddUserJobDescription("dev", "ml")

ArchiveRankResumes ==
    /\ clock < ArchiveSnapshots
    /\ \E job_id \in DOMAIN jobs :
          RankResumesForJob(job_id, FALSE, FALSE, FALSE, {1, Len(analysis) + 1})

ArchiveMatchSaved ==
    /\ clock < ArchiveSnapshots
    /\ \E resume_id \in DOMAIN resumes :
          MatchResumeToSavedJobs(resume_id, FALSE, FALSE, {1, Len(analysis) + 1})

ArchiveDeleteJob ==
    \E job_id \in DOMAIN jobs :
        DeleteJob(job_id, FALSE, {}, 0, FALSE)

ArchiveDeleteUserResume ==
    \E resume_id \in DOMAIN resumes :
        DeleteUserResume(resume_id, FALSE, FALSE, FALSE)

ArchiveGetLatestRanking ==
    \E job_id \in JobIds :
        GetLatestRanking(job_id, FALSE)

NextArchive ==
    \/ ArchiveCreateJob
    \/ ArchiveUploadResumes
    \/ ArchiveUploadUserResume
    \/ ArchiveAddSaved
    \/ ArchiveRankResumes
    \/ ArchiveMatchSaved
    \/ ArchiveDeleteJob
    \/ ArchiveDeleteUserResume
    \/ ArchiveGetLatestRanking

\* The Explainer is left unconfigured here: no description of this
\* specification scores a resume at the explanation threshold.
ArchiveInit == Init /\ ~groq

SpecArchive == ArchiveInit /\ [][NextArchive]_vars

\* The snapshot get_latest_ranking answers with for a job: <<>> for none
CachedRanking(job_id) ==
    LET hit(a) == a.job_id = job_id /\ a.result_type = "hr_ranking"
        matching == SelectSeq(analysis, hit)
    IN IF matching = <<>> THEN <<>> ELSE <<LatestOf(matching)>>

\* s with its element number pos left out
Except(s, pos) == SubSeq(s, 1, pos - 1) \o SubSeq(s, pos + 1, Len(s))

\* C17: analysis_results is append-only. No request removes or changes a
\* snapshot: a step leaves the collection as it is or adds one snapshot to
\* it, and delete_job and delete_user_resume leave it as it is. So
\* get_latest_ranking answers for a deleted job what it answered before
\* the deletion: the job's last ranking (of the LatestScanLimit snapshots
\* its scan reads).
C17_SnapshotsAppendOnly ==
    [][/\ \/ analysis' = analysis
          \/ \E pos \in 1..Len(analysis') : Except(analysis', pos) = analysis
       /\ resp'.op \in {"delete_job", "delete_user_resume"} =>
             /\ analysis' = analysis
             /\ \A j \in JobIds : CachedRanking(j)' = CachedRanking(j)
       /\ \A job_id \in JobIds :
             (/\ resp'.op = "get_latest_ranking"
              /\ resp'.job_id = job_id
              /\ job_id \notin DOMAIN jobs'
              /\ Cardinality(RankingsOf(job_id)') \in 1..LatestScanLimit) =>
                /\ resp'.has_cached_results
                /\ \E i \in RankingsOf(job_id)' :
                      /\ \A j \in RankingsOf(job_id)' :
                            analysis'[j].timestamp <= analysis'[i].timestamp
                      /\ resp'.matches = analysis'[i].results]_vars

\* The ranking made last of a job since deleted is read back, with an
\* earlier ranking of the job in the collection as well.
C17_Witness ==
    /\ resp.op = "get_latest_ranking"
    /\ resp.job_id \notin DOMAIN jobs
    /\ resp.has_cached_results
    /\ resp.matches # <<>>
    /\ Cardinality(RankingsOf(resp.job_id)) >= 2
    /\ resp.timestamp = clock

\* The snapshot get_latest_matches answers with for a resume: <<>> for none
CachedMatches(resume_id) ==
    LET hit(a) == a.resume_id = resume_id /\ a.result_type = "user_matching"
        matching == SelectSeq(analysis, hit)
    IN IF matching = <<>> THEN <<>> ELSE <<LatestOf(matching)>>

\* C18: every match_resume_to_saved_jobs that succeeds stores the list it
\* returns as a user_matching snapshot of the resume, so that
\* get_latest_matches for the resume, called right after, answers with
\* that list; also when the library of saved jobs is empty.
C18_MatchesPersisted ==
    (resp.op = "match_resume_to_saved_jobs" /\ resp.status = 200) =>
        /\ CachedMatches(resp.resume_id) # <<>>
        /\ CachedMatches(resp.resume_id)[1].results = resp.matches
        /\ CachedMatches(resp.resume_id)[1].timestamp = clock

(***************************************************************************)
(* SpecRace: an upload_resumes_for_job for a job that exists when the      *)
(* request starts, run await by await, and a delete_job that the event     *)
(* loop may run while the upload waits for a read.                         *)
(***************************************************************************)
RaceCreateJob ==
    /\ issued.job < MaxJobs
    /\ CreateJob("dev", "go")

RaceUploadBegin ==
    \E job_id \in DOMAIN jobs,
       fs \in Lists({Pdf("go"), File("text/plain", "go")}, MaxBatch) :
        /\ issued.resume + Len(fs) <= RaceResumes
        /\ UploadBegin(job_id, fs, FALSE)

RaceUploadResume ==
    UploadResume(FALSE)

RaceDeleteJob ==
    \E job_id \in DOMAIN jobs :
        DeleteJob(job_id, FALSE, {}, 0, FALSE)

NextRace ==
    \/ RaceCreateJob
    \/ RaceUploadBegin
    \/ RaceUploadResume
    \/ RaceDeleteJob

SpecRace == Init /\ [][NextRace]_vars

\* C19: however an upload_resumes_for_job and a delete_job of the same job
\* interleave, once both have finished no resume is left with the deleted
\* job's id: every resume with a job_id names a job of job_descriptions.
C19_NoOrphanAfterRace ==
    pending = <<>> =>
        \A r \in DOMAIN resumes :
            resumes[r].job_id # NoId => resumes[r].job_id \in DOMAIN jobs

(***************************************************************************)
(* Every request of the service, with the inputs and the faults the        *)
(* specifications above give them.                                         *)
(***************************************************************************)
Next ==
    \/ NextRank
    \/ NextStore
    \/ NextCascade
    \/ NextPersist
    \/ NextCache
    \/ NextLookup
    \/ NextFaults
    \/ NextDelete
    \/ NextArchive
    \/ NextRace

Spec == Init /\ [][Next]_vars

====
